---- MODULE Spec2Model ----
(***************************************************************************)
(* dm-data-relationship-breaker (src/main.py): generate (name, address)    *)
(* records with Faker, shuffle the address column against the name column  *)
(* with random.shuffle, write the result to CSV.                           *)
(*                                                                         *)
(* Strings that the program inspects (city, addresses) are sequences of    *)
(* one-character strings, so that lower() and the substring test `in` are  *)
(* computed, not assumed.  Python values whose type the program tests are  *)
(* records [t |-> type, v |-> value].                                      *)
(***************************************************************************)
EXTENDS Integers, Sequences, FiniteSets, TLC

VARIABLES
    fakerRng,        \* state of Faker's shared random.Random instance
    globalRng,       \* state of the hidden instance behind the random module
    call,            \* the call made last (or the run in progress) and its inputs
    first,           \* the first generate_fake_data call and what it returned
    pc,              \* main(): position of the run
    argv,            \* main(): the command line of the run
    args,            \* main(): the argparse Namespace
    data,            \* main(): result of generate_fake_data
    reassigned_data, \* main(): result of reassign_addresses
    exc,             \* main(): the exception in flight
    fileOpen,        \* write_data_to_csv: the handle of the with block is open
    disk,            \* the rows of the output file on disk, or NoFile
    opened,          \* the run has called open() on the output path
    exitCode,        \* exit status of the run, or Running
    log,             \* records logged by the run (level, message tag)
    prevRun          \* the previous successful run: its Namespace and its output

vars == <<fakerRng, globalRng, call, first, pc, argv, args, data, reassigned_data,
          exc, fileOpen, disk, opened, exitCode, log, prevRun>>

mainVars == <<pc, argv, args, data, reassigned_data, exc, fileOpen, disk, opened,
              exitCode, log, prevRun>>

(***************************************************************************)
(* Bounds of the model.                                                    *)
(***************************************************************************)
RngMod == 8        \* number of states of a random source
MaxRecords == 2    \* largest num_records generated
MaxLen == 3        \* longest dataset handed to reassign_addresses directly

(***************************************************************************)
(* Python values.                                                          *)
(***************************************************************************)
None == [t |-> "none", v |-> 0]
IntVal(i) == [t |-> "int", v |-> i]
BoolVal(b) == [t |-> "bool", v |-> b]
FloatVal(i) == [t |-> "float", v |-> i]
StrVal(s) == [t |-> "str", v |-> s]

\* isinstance(x, str)
IsInstanceStr(x) == x.t = "str"

\* isinstance(x, int): bool is a subclass of int
IsInstanceInt(x) == x.t \in {"int", "bool"}

\* the integer a value of type int or bool compares as
IntOf(x) == IF x.t = "bool" THEN (IF x.v THEN 1 ELSE 0) ELSE x.v

\* truth value of a str: non-empty
StrTruthy(x) == Len(x.v) > 0

(***************************************************************************)
(* Strings.                                                                *)
(***************************************************************************)
LowerChar(c) ==
    CASE c = "P" -> "p"
      [] c = "A" -> "a"
      [] c = "X" -> "x"
      [] OTHER -> c

\* str.lower()
Lower(s) == [i \in 1..Len(s) |-> LowerChar(s[i])]

\* needle in hay
Contains(hay, needle) ==
    \E i \in 0..(Len(hay) - Len(needle)) :
        SubSeq(hay, i + 1, i + Len(needle)) = needle

(***************************************************************************)
(* Random sources.  A source is a deterministic generator: its state       *)
(* decides every later draw.  Seeding puts it in a state the seed decides. *)
(***************************************************************************)
RngStates == 0..(RngMod - 1)

RngStep(s) == (5 * s + 3) % RngMod

\* one draw below k: the value drawn (from the high bits of the new state)
\* and the state after it
RandBelow(s, k) == [v |-> (RngStep(s) \div 2) % k, rng |-> RngStep(s)]

\* Random.seed(seed)
SeedRng(seed) == (3 * seed + 1) % RngMod

(***************************************************************************)
(* Faker's pools: what fake.name() and fake.address() can return.          *)
(***************************************************************************)
FakeNames == <<"Ann", "Bob">>

FakeAddresses == << <<"1", " ", "p", "A">>, <<"2", " ", "x">> >>

(***************************************************************************)
(* generate_fake_data                                                      *)
(***************************************************************************)
\* the test of line 73 without the two lower() calls
CityAddressCaseSensitive(address, city) ==
    IF ~Contains(address, city)
    THEN address \o <<",", " ">> \o city
    ELSE address

\* lines 73-74: the address as stored, given the address Faker returned
CityAddress(address, city) ==
    IF ~Contains(Lower(address), Lower(city))
    THEN address \o <<",", " ">> \o city
    ELSE address

\* lines 67-75: the loop, k iterations left; raw keeps what fake.address()
\* returned in each iteration
RECURSIVE GenerateLoop(_, _, _, _, _)
GenerateLoop(k, city, rng, acc, raw) ==
    IF k <= 0
    THEN [data |-> acc, raw |-> raw, rng |-> rng]
    ELSE LET n == RandBelow(rng, Len(FakeNames))
             a == RandBelow(n.rng, Len(FakeAddresses))
             name == FakeNames[n.v + 1]
             address == FakeAddresses[a.v + 1]
         IN  GenerateLoop(k - 1, city, a.rng,
                          Append(acc, <<name, CityAddress(address, city)>>),
                          Append(raw, address))

\* lines 64-65 left out: the seed is ignored
UnseededRng(seed, rng) == rng

\* lines 64-65: the state of Faker's random source when the loop starts
SeededRng(seed, rng) == IF seed # None THEN SeedRng(seed.v) ELSE rng

\* the whole function, called with Faker's random source in state rng
generate_fake_data(num_records, city, seed, rng) ==
    GenerateLoop(num_records, city, SeededRng(seed, rng), <<>>, <<>>)

(***************************************************************************)
(* reassign_addresses                                                      *)
(***************************************************************************)
Swap(x, i, j) == [x EXCEPT ![i] = x[j], ![j] = x[i]]

\* random.shuffle(x): for i in reversed(range(1, len(x))), swap x[i] with
\* x[randbelow(i + 1)]; i is the 0-based index still to place
RECURSIVE ShuffleLoop(_, _, _)
ShuffleLoop(x, i, rng) ==
    IF i < 1
    THEN [x |-> x, rng |-> rng]
    ELSE LET j == RandBelow(rng, i + 1)
         IN  ShuffleLoop(Swap(x, i + 1, j.v + 1), i - 1, j.rng)

shuffle(x, rng) == ShuffleLoop(x, Len(x) - 1, rng)

\* line 88: the address column, a new list
AddressColumn(d) == [i \in 1..Len(d) |-> d[i][2]]

\* line 92 with addresses[0] for addresses[i]
RepairFirstAddress(d, addresses) == [i \in 1..Len(d) |-> <<d[i][1], addresses[1]>>]

\* lines 90-92: names of d, in order, against the addresses
Repair(d, addresses) == [i \in 1..Len(d) |-> <<d[i][1], addresses[i]>>]

\* line 89 shuffling the records: random.shuffle(data), names move too
reassign_records(d, rng) ==
    LET sh == shuffle(d, rng)
    IN  [data |-> d, reassigned_data |-> sh.x, rng |-> sh.rng]

\* lines 91-92 writing the pairs back into the list passed in
reassign_in_place(d, rng) ==
    LET sh == shuffle(AddressColumn(d), rng)
    IN  [data |-> Repair(d, sh.x), reassigned_data |-> Repair(d, sh.x), rng |-> sh.rng]

\* the whole function, called with the random module in state rng: the list
\* passed in as it is after the call, the list returned, the state after
reassign_addresses(d, rng) ==
    LET sh == shuffle(AddressColumn(d), rng)
    IN  [data |-> d, reassigned_data |-> Repair(d, sh.x), rng |-> sh.rng]

(***************************************************************************)
(* validate_input                                                          *)
(***************************************************************************)
NoExc == [type |-> "none", msg |-> ""]
ValueError(m) == [type |-> "ValueError", msg |-> m]
OSError(m) == [type |-> "OSError", msg |-> m]

\* line 127 with < for <=
BadNumRecordsStrict(x) == ~IsInstanceInt(x) \/ IntOf(x) < 0

\* line 127: the test on num_records
BadNumRecords(x) == ~IsInstanceInt(x) \/ IntOf(x) <= 0

\* the exception validate_input raises for the Namespace a, or NoExc
validate_input(a) ==
    IF ~IsInstanceStr(a.city) \/ ~StrTruthy(a.city)
    THEN ValueError("City must be a non-empty string.")
    ELSE IF BadNumRecords(a.num_records)
    THEN ValueError("Number of records must be a positive integer.")
    ELSE IF ~IsInstanceStr(a.output_file) \/ ~StrTruthy(a.output_file)
    THEN ValueError("Output file must be a non-empty string.")
    ELSE IF a.seed # None /\ ~IsInstanceInt(a.seed)
    THEN ValueError("Seed must be an integer.")
    ELSE NoExc

(***************************************************************************)
(* Values shared by the specifications.                                    *)
(***************************************************************************)
NoCall == [fn |-> "none"]
NoFile == <<"absent">>
Running == -1
NoArgs == [city |-> None, num_records |-> None, output_file |-> None, seed |-> None]
NoRun == [args |-> NoArgs, out |-> <<>>]

Cities == {<<>>, <<"P", "a">>, <<"x">>, <<"X", "p">>}

Seeds == {None, IntVal(0), IntVal(1)}

\* records a caller may hand to reassign_addresses: names and addresses repeat
Records ==
    { <<"Ann", FakeAddresses[1]>>, <<"Bob", FakeAddresses[2]>>,
      <<"Ann", <<"3">> >>, <<"Bob", FakeAddresses[1]>> }

Datasets == UNION {[1..k -> Records] : k \in 0..MaxLen}

\* the variables of main() while no run of main() is modelled
MainIdle ==
    /\ pc = "lib"
    /\ argv = NoArgs
    /\ exc = NoExc
    /\ fileOpen = FALSE
    /\ disk = NoFile
    /\ opened = FALSE
    /\ exitCode = Running
    /\ log = <<>>
    /\ prevRun = NoRun

idleVars == <<pc, argv, exc, fileOpen, disk, opened, exitCode, log, prevRun>>

(***************************************************************************)
(* generate_fake_data called directly in one interpreter: a first call,    *)
(* then any number of other calls that draw from the random sources        *)
(* (generate_fake_data with any arguments, shuffles), then a second call   *)
(* with the arguments of the first.  Both random sources start in a state  *)
(* the operating system's entropy decides (import random, line 3; from     *)
(* faker import Faker, line 5).                                            *)
(***************************************************************************)
InitGenerate ==
    /\ fakerRng \in RngStates
    /\ globalRng \in RngStates
    /\ call = NoCall
    /\ first = NoCall
    /\ \E n \in 0..MaxRecords, city \in Cities, seed \in Seeds :
           args = [city |-> StrVal(city), num_records |-> IntVal(n),
                   output_file |-> None, seed |-> seed]
    /\ data = <<>>
    /\ reassigned_data = <<>>
    /\ MainIdle

\* data = generate_fake_data(args.num_records, args.city, args.seed), the
\* nth such call; before: the state of Faker's source when it is called
GenerateCall(nth) ==
    LET r == generate_fake_data(args.num_records.v, args.city.v, args.seed, fakerRng)
    IN  /\ call' = [fn |-> "generate", nth |-> nth, before |-> fakerRng, raw |-> r.raw]
        /\ data' = r.data
        /\ fakerRng' = r.rng
        /\ first' = IF nth = 1 THEN [fn |-> "generate", before |-> fakerRng, out |-> r.data]
                    ELSE first
        /\ UNCHANGED <<globalRng, args, reassigned_data, idleVars>>

FirstGenerate == call = NoCall /\ GenerateCall(1)

SecondGenerate == call.fn = "generate" /\ call.nth = 1 /\ GenerateCall(2)

\* between the two calls: generate_fake_data(n, city, seed), result dropped
OtherGenerate ==
    /\ call.fn = "generate" /\ call.nth = 1
    /\ \E n \in 0..MaxRecords, city \in Cities, seed \in Seeds :
           fakerRng' = generate_fake_data(n, city, seed, fakerRng).rng
    /\ UNCHANGED <<globalRng, call, first, args, data, reassigned_data, idleVars>>

\* between the two calls: reassign_addresses(data), result dropped
OtherShuffle ==
    /\ call.fn = "generate" /\ call.nth = 1
    /\ globalRng' = reassign_addresses(data, globalRng).rng
    /\ UNCHANGED <<fakerRng, call, first, args, data, reassigned_data, idleVars>>

NextGenerate == FirstGenerate \/ OtherGenerate \/ OtherShuffle \/ SecondGenerate

SpecGenerate == InitGenerate /\ [][NextGenerate]_vars

(***************************************************************************)
(* reassign_addresses called directly on a dataset.                        *)
(***************************************************************************)
InitReassign ==
    /\ fakerRng = 0
    /\ globalRng \in RngStates
    /\ call = NoCall
    /\ first = NoCall
    /\ args = NoArgs
    /\ data \in Datasets
    /\ reassigned_data = <<>>
    /\ MainIdle

\* reassigned_data = reassign_addresses(data)
CallReassign ==
    /\ call = NoCall
    /\ LET r == reassign_addresses(data, globalRng)
       IN  /\ call' = [fn |-> "reassign", input |-> data]
           /\ data' = r.data
           /\ reassigned_data' = r.reassigned_data
           /\ globalRng' = r.rng
    /\ UNCHANGED <<fakerRng, first, args, idleVars>>

NextReassign == CallReassign

SpecReassign == InitReassign /\ [][NextReassign]_vars

(***************************************************************************)
(* Properties of reassign_addresses (SpecReassign).                        *)
(***************************************************************************)
\* number of positions of the sequence col that hold a
Count(col, a) == Cardinality({i \in 1..Len(col) : col[i] = a})

\* the values the sequence col holds
Elements(col) == {col[i] : i \in 1..Len(col)}

Reassigned == call.fn = "reassign"

\* C1: the addresses of reassign_addresses(dataset) are the addresses of
\* dataset, each as many times as in dataset: none invented, none lost
\* (the empty dataset and repeated addresses included).
C1_AddressMultisetKept ==
    Reassigned =>
        \A a \in Elements(AddressColumn(reassigned_data))
                    \cup Elements(AddressColumn(call.input)) :
            Count(AddressColumn(reassigned_data), a)
                = Count(AddressColumn(call.input), a)

C1_Witness ==
    /\ Reassigned
    /\ Len(call.input) >= 3
    /\ \E i, j \in 1..Len(call.input) :
           i # j /\ call.input[i][2] = call.input[j][2]
    /\ AddressColumn(reassigned_data) # AddressColumn(call.input)

\* C2: reassign_addresses(dataset) is as long as dataset and its i-th record
\* carries the i-th name of dataset, for every i.
C2_NamesKeptInOrder ==
    Reassigned =>
        /\ Len(reassigned_data) = Len(call.input)
        /\ \A i \in 1..Len(call.input) : reassigned_data[i][1] = call.input[i][1]

C2_Witness ==
    /\ Reassigned
    /\ \E i, j \in 1..Len(call.input) : call.input[i][1] # call.input[j][1]
    /\ \E i \in 1..Len(call.input) : reassigned_data[i][2] # call.input[i][2]

\* C10: after reassign_addresses(dataset) the list passed in holds the same
\* records in the same order; the result is another list.
C10_InputUnchanged == Reassigned => data = call.input

C10_Witness == Reassigned /\ reassigned_data # data /\ Len(data) = 2

(***************************************************************************)
(* Properties of generate_fake_data (SpecGenerate).                        *)
(***************************************************************************)
Generated == call.fn = "generate"

\* C6: every address generate_fake_data returns contains city, compared
\* without case; it is the address Faker returned when that one contains
\* city already, and that address followed by ", " and city otherwise.
C6_AddressContainsCity ==
    Generated =>
        /\ Len(data) = Len(call.raw)
        /\ \A i \in 1..Len(data) :
               LET a == data[i][2]
                   raw == call.raw[i]
                   city == args.city.v
               IN  /\ Contains(Lower(a), Lower(city))
                   /\ IF Contains(Lower(raw), Lower(city))
                      THEN a = raw
                      ELSE a = raw \o <<",", " ">> \o city

C6_Witness ==
    /\ Generated
    /\ args.city.v = <<"P", "a">>
    /\ \E i, j \in 1..Len(data) :
           /\ data[i][2] = call.raw[i]
           /\ data[j][2] = call.raw[j] \o <<",", " ", "P", "a">>

\* C7: a second generate_fake_data(n, city, s) with a seed s returns what the
\* first one returned, whatever was drawn from the random sources between.
C7_SeededGenerateRepeats ==
    (Generated /\ call.nth = 2 /\ args.seed # None) => data = first.out

C7_Witness ==
    /\ Generated /\ call.nth = 2 /\ args.seed # None
    /\ Len(data) = 2
    /\ call.before # first.before
    /\ call.before # SeedRng(args.seed.v)

(***************************************************************************)
(* validate_input called directly on a Namespace of any values.            *)
(***************************************************************************)
CityValues == {StrVal(<<>>), StrVal(<<"P", "a">>), None, IntVal(5)}

NumRecordsValues ==
    {IntVal(-1), IntVal(0), IntVal(1), IntVal(2), BoolVal(TRUE), BoolVal(FALSE),
     FloatVal(1), StrVal(<<"1">>), None}

OutputFileValues == {StrVal(<<>>), StrVal(<<"o">>), None, IntVal(1)}

SeedValues == {None, IntVal(0), IntVal(-1), BoolVal(TRUE), FloatVal(1), StrVal(<<"1">>)}

InitValidate ==
    /\ fakerRng = 0
    /\ globalRng = 0
    /\ call = NoCall
    /\ first = NoCall
    /\ args \in [city : CityValues, num_records : NumRecordsValues,
                 output_file : OutputFileValues, seed : SeedValues]
    /\ data = <<>>
    /\ reassigned_data = <<>>
    /\ MainIdle

\* validate_input(args): exc is what it raised
CallValidate ==
    /\ call = NoCall
    /\ call' = [fn |-> "validate", input |-> args]
    /\ exc' = validate_input(args)
    /\ UNCHANGED <<fakerRng, globalRng, first, args, data, reassigned_data, pc, argv,
                   fileOpen, disk, opened, exitCode, log, prevRun>>

NextValidate == CallValidate

SpecValidate == InitValidate /\ [][NextValidate]_vars

\* an integer of Python: an int, or a bool (True is 1, False is 0)
PyInteger(x) == x.t = "int" \/ x.t = "bool"

PyPositive(x) == (x.t = "int" /\ x.v > 0) \/ (x.t = "bool" /\ x.v)

PyNonEmptyStr(x) == x.t = "str" /\ x.v # <<>>

\* the four conditions on a Namespace
WellFormed(a) ==
    /\ PyNonEmptyStr(a.city)
    /\ PyInteger(a.num_records) /\ PyPositive(a.num_records)
    /\ PyNonEmptyStr(a.output_file)
    /\ a.seed = None \/ PyInteger(a.seed)

\* C5: validate_input raises ValueError when city is empty or no string,
\* num_records is no positive integer, output_file is empty or no string, or a
\* seed is given that is no integer; it raises nothing otherwise; it changes
\* nothing in either case.
C5_ValidateInput ==
    call.fn = "validate" =>
        /\ ~WellFormed(call.input) => exc.type = "ValueError"
        /\ WellFormed(call.input) => exc = NoExc
        /\ args = call.input
        /\ data = <<>> /\ reassigned_data = <<>> /\ log = <<>>
        /\ disk = NoFile /\ ~opened /\ fakerRng = 0 /\ globalRng = 0

C5_Witness ==
    /\ call.fn = "validate"
    /\ call.input.num_records = IntVal(0)
    /\ PyNonEmptyStr(call.input.city) /\ PyNonEmptyStr(call.input.output_file)
    /\ call.input.seed = IntVal(0)
    /\ exc.type = "ValueError"

(***************************************************************************)
(* The command line and argparse (setup_argparse, parser.parse_args).      *)
(* An option of the command line is None when absent, otherwise the text   *)
(* given for it.                                                           *)
(***************************************************************************)
DigitChars == <<"0", "1", "2", "3", "4", "5", "6", "7", "8", "9">>

IsDigit(c) == \E d \in 1..Len(DigitChars) : DigitChars[d] = c

DigitValue(c) == (CHOOSE d \in 1..Len(DigitChars) : DigitChars[d] = c) - 1

\* the decimal value of a sequence of digits
RECURSIVE DigitsValue(_)
DigitsValue(s) ==
    IF s = <<>> THEN 0
    ELSE 10 * DigitsValue(SubSeq(s, 1, Len(s) - 1)) + DigitValue(s[Len(s)])

AllDigits(s) == s # <<>> /\ \A i \in 1..Len(s) : IsDigit(s[i])

\* type=int: int(text) succeeds
IsIntText(s) ==
    IF s # <<>> /\ s[1] = "-" THEN AllDigits(Tail(s)) ELSE AllDigits(s)

\* type=int: int(text)
IntOfText(s) == IF s[1] = "-" THEN 0 - DigitsValue(Tail(s)) ELSE DigitsValue(s)

CityOptions == {None, StrVal(<<>>), StrVal(<<"P", "a">>)}

NumRecordsOptions ==
    {None, StrVal(<<"a">>), StrVal(<<"-", "1">>), StrVal(<<"0">>)}
        \cup {StrVal(<<DigitChars[n + 1]>>) : n \in 1..MaxRecords}

OutputFileOptions == {None, StrVal(<<>>), StrVal(<<"o">>), StrVal(<<"d", "/", "o">>)}

SeedOptions == {None, StrVal(<<"a">>), StrVal(<<"1">>)}

\* lines 18-45: parse_args rejects the command line (usage error)
ArgparseRejects(av) ==
    \/ av.city = None
    \/ av.num_records = None
    \/ av.output_file = None
    \/ ~IsIntText(av.num_records.v)
    \/ (av.seed # None /\ ~IsIntText(av.seed.v))

\* lines 18-45: the Namespace parse_args returns
Namespace(av) ==
    [city |-> av.city,
     num_records |-> IntVal(IntOfText(av.num_records.v)),
     output_file |-> av.output_file,
     seed |-> IF av.seed = None THEN None ELSE IntVal(IntOfText(av.seed.v))]

\* exit status of parser.error()
ArgparseExit == 2

(***************************************************************************)
(* The file system: only the working directory exists, so a path with a    *)
(* directory part cannot be opened; any other open, and any write, may     *)
(* fail as well.                                                           *)
(***************************************************************************)
DirectoryMissing(path) == Contains(path, <<"/">>)

HeaderRow == <<"Name", "Address">>

(***************************************************************************)
(* main(): one run of the program, and a second run of the same command    *)
(* line after a successful first one.                                      *)
(***************************************************************************)
StartOfRun(f, g) == [fn |-> "main", faker0 |-> f, global0 |-> g, fault |-> "none"]

Init ==
    /\ fakerRng \in RngStates
    /\ globalRng \in RngStates
    /\ call = StartOfRun(fakerRng, globalRng)
    /\ first = NoCall
    /\ pc = "parse"
    /\ argv \in [city : CityOptions, num_records : NumRecordsOptions,
                 output_file : OutputFileOptions, seed : SeedOptions]
    /\ args = NoArgs
    /\ data = <<>>
    /\ reassigned_data = <<>>
    /\ exc = NoExc
    /\ fileOpen = FALSE
    /\ disk = NoFile
    /\ opened = FALSE
    /\ exitCode = Running
    /\ log = <<>>
    /\ prevRun = NoRun

\* lines 141-142
ParseArgs ==
    /\ pc = "parse"
    /\ IF ArgparseRejects(argv)
       THEN /\ exitCode' = ArgparseExit
            /\ pc' = "done"
            /\ UNCHANGED args
       ELSE /\ args' = Namespace(argv)
            /\ pc' = "validate"
            /\ UNCHANGED exitCode
    /\ UNCHANGED <<fakerRng, globalRng, call, first, argv, data, reassigned_data, exc,
                   fileOpen, disk, opened, log, prevRun>>

\* lines 146-149: what main logs once validate_input has returned
StartLog(a) ==
    << <<"INFO", "Starting data relationship breaker...", "">>,
       <<"INFO", "City, Number of Records, Output File", "">> >>
    \o (IF a.seed # None THEN << <<"INFO", "Using seed", "">> >> ELSE <<>>)

\* lines 145-149
ValidateInput ==
    /\ pc = "validate"
    /\ LET e == validate_input(args)
       IN  IF e = NoExc
           THEN /\ log' = log \o StartLog(args)
                /\ pc' = "generate"
                /\ UNCHANGED exc
           ELSE /\ exc' = e
                /\ pc' = "handler"
                /\ UNCHANGED log
    /\ UNCHANGED <<fakerRng, globalRng, call, first, argv, args, data, reassigned_data,
                   fileOpen, disk, opened, exitCode, prevRun>>

\* line 152
GenerateFakeData ==
    /\ pc = "generate"
    /\ LET r == generate_fake_data(args.num_records.v, args.city.v, args.seed, fakerRng)
       IN  /\ data' = r.data
           /\ fakerRng' = r.rng
    /\ pc' = "reassign"
    /\ UNCHANGED <<globalRng, call, first, argv, args, reassigned_data, exc, fileOpen,
                   disk, opened, exitCode, log, prevRun>>

\* line 155
ReassignAddresses ==
    /\ pc = "reassign"
    /\ LET r == reassign_addresses(data, globalRng)
       IN  /\ data' = r.data
           /\ reassigned_data' = r.reassigned_data
           /\ globalRng' = r.rng
    /\ pc' = "open"
    /\ UNCHANGED <<fakerRng, call, first, argv, args, exc, fileOpen, disk, opened,
                   exitCode, log, prevRun>>

(***************************************************************************)
(* write_data_to_csv, step by step inside main().  call.fault names the    *)
(* step at which the file system failed, if it did.                        *)
(***************************************************************************)
Fault(step) == [call EXCEPT !.fault = step]

\* line 104: open(output_file, "w", newline="")
OpenFile ==
    /\ pc = "open"
    /\ opened' = TRUE
    /\ \/ /\ ~DirectoryMissing(args.output_file.v)
          /\ fileOpen' = TRUE
          /\ disk' = <<>>
          /\ pc' = "header"
          /\ UNCHANGED <<exc, call>>
       \/ /\ exc' = OSError("open")
          /\ call' = Fault("open")
          /\ pc' = "write_except"
          /\ UNCHANGED <<fileOpen, disk>>
    /\ UNCHANGED <<fakerRng, globalRng, first, argv, args, data, reassigned_data,
                   exitCode, log, prevRun>>

\* line 107: writer.writerow(["Name", "Address"])
WriteHeader ==
    /\ pc = "header"
    /\ \/ /\ disk' = <<HeaderRow>>
          /\ pc' = "rows"
          /\ UNCHANGED <<exc, call>>
       \/ /\ exc' = OSError("header")
          /\ call' = Fault("header")
          /\ pc' = "with_exit"
          /\ UNCHANGED disk
    /\ UNCHANGED <<fakerRng, globalRng, first, argv, args, data, reassigned_data,
                   fileOpen, opened, exitCode, log, prevRun>>

\* line 108: writer.writerows(data); a failure leaves the rows written so far
WriteRows ==
    /\ pc = "rows"
    /\ \/ /\ disk' = disk \o reassigned_data
          /\ pc' = "with_exit"
          /\ UNCHANGED <<exc, call>>
       \/ /\ \E k \in 0..(Len(reassigned_data) - 1) :
                 disk' = disk \o SubSeq(reassigned_data, 1, k)
          /\ exc' = OSError("rows")
          /\ call' = Fault("rows")
          /\ pc' = "with_exit"
    /\ UNCHANGED <<fakerRng, globalRng, first, argv, args, data, reassigned_data,
                   fileOpen, opened, exitCode, log, prevRun>>

\* a with block that closes the handle only when its body raised nothing
WithExitLeak ==
    /\ pc = "with_exit"
    /\ IF exc = NoExc
       THEN /\ fileOpen' = FALSE
            /\ pc' = "write_ok"
       ELSE /\ pc' = "write_except"
            /\ UNCHANGED fileOpen
    /\ UNCHANGED <<fakerRng, globalRng, call, first, argv, args, data, reassigned_data,
                   exc, disk, opened, exitCode, log, prevRun>>

\* line 104: leaving the with block closes the handle, whether the body
\* raised or not; the flush of the close may fail when it did not
WithExit ==
    /\ pc = "with_exit"
    /\ fileOpen' = FALSE
    /\ \/ /\ exc = NoExc
          /\ pc' = "write_ok"
          /\ UNCHANGED <<exc, call>>
       \/ /\ exc = NoExc
          /\ exc' = OSError("close")
          /\ call' = Fault("close")
          /\ pc' = "write_except"
       \/ /\ exc # NoExc
          /\ pc' = "write_except"
          /\ UNCHANGED <<exc, call>>
    /\ UNCHANGED <<fakerRng, globalRng, first, argv, args, data, reassigned_data,
                   disk, opened, exitCode, log, prevRun>>

\* line 109
WriteLogInfo ==
    /\ pc = "write_ok"
    /\ log' = Append(log, <<"INFO", "Data written to", "">>)
    /\ pc' = "tail"
    /\ UNCHANGED <<fakerRng, globalRng, call, first, argv, args, data, reassigned_data,
                   exc, fileOpen, disk, opened, exitCode, prevRun>>

\* lines 110-111 without the raise of line 112: the error is logged and
\* write_data_to_csv returns
WriteExceptSwallow ==
    /\ pc = "write_except"
    /\ log' = Append(log, <<"ERROR", "Error writing to file", exc.msg>>)
    /\ exc' = NoExc
    /\ pc' = "tail"
    /\ UNCHANGED <<fakerRng, globalRng, call, first, argv, args, data, reassigned_data,
                   fileOpen, disk, opened, exitCode, prevRun>>

\* lines 110-112: the error is logged and raised again
WriteExcept ==
    /\ pc = "write_except"
    /\ log' = Append(log, <<"ERROR", "Error writing to file", exc.msg>>)
    /\ pc' = "handler"
    /\ UNCHANGED <<fakerRng, globalRng, call, first, argv, args, data, reassigned_data,
                   exc, fileOpen, disk, opened, exitCode, prevRun>>

\* line 160, and main returning
MainTail ==
    /\ pc = "tail"
    /\ log' = Append(log, <<"INFO", "Data relationship breaking completed successfully.", "">>)
    /\ exitCode' = 0
    /\ pc' = "done"
    /\ UNCHANGED <<fakerRng, globalRng, call, first, argv, args, data, reassigned_data,
                   exc, fileOpen, disk, opened, prevRun>>

\* lines 162-167 with the sys.exit(1) of line 164 left out
HandlerExitNoValueError(e) == IF e.type = "ValueError" THEN 0 ELSE 1

\* lines 164 and 167: the status main exits with for the exception e
HandlerExit(e) == IF e.type = "ValueError" THEN 1 ELSE 1

\* lines 163 and 166: what main logs for the exception e
HandlerLog(e) ==
    IF e.type = "ValueError"
    THEN <<"ERROR", "Input validation error", e.msg>>
    ELSE <<"ERROR", "An unexpected error occurred", e.msg>>

\* lines 162-167
Handler ==
    /\ pc = "handler"
    /\ log' = Append(log, HandlerLog(exc))
    /\ exitCode' = HandlerExit(exc)
    /\ pc' = "done"
    /\ UNCHANGED <<fakerRng, globalRng, call, first, argv, args, data, reassigned_data,
                   exc, fileOpen, disk, opened, prevRun>>

\* the same command line run again, in a new process, after a run that
\* succeeded: new random sources, what the first run wrote is remembered
RunAgain ==
    /\ pc = "done"
    /\ exitCode = 0
    /\ prevRun = NoRun
    /\ prevRun' = [args |-> args, out |-> reassigned_data]
    /\ \E f \in RngStates, g \in RngStates :
           /\ fakerRng' = f
           /\ globalRng' = g
           /\ call' = StartOfRun(f, g)
    /\ pc' = "parse"
    /\ args' = NoArgs
    /\ data' = <<>>
    /\ reassigned_data' = <<>>
    /\ exc' = NoExc
    /\ fileOpen' = FALSE
    /\ opened' = FALSE
    /\ exitCode' = Running
    /\ log' = <<>>
    /\ UNCHANGED <<first, argv, disk>>

Next ==
    \/ ParseArgs
    \/ ValidateInput
    \/ GenerateFakeData
    \/ ReassignAddresses
    \/ OpenFile
    \/ WriteHeader
    \/ WriteRows
    \/ WithExit
    \/ WriteLogInfo
    \/ WriteExcept
    \/ MainTail
    \/ Handler
    \/ RunAgain

Spec == Init /\ [][Next]_vars

(***************************************************************************)
(* Properties of a run of main() (Spec).                                   *)
(***************************************************************************)
Done == pc = "done"

\* C3: two runs of the same command line with a seed write the same names
\* against the same addresses.
C3_SeededRunsReproduce ==
    (Done /\ exitCode = 0 /\ prevRun # NoRun /\ args = prevRun.args /\ args.seed # None)
        => reassigned_data = prevRun.out

\* a required option is absent, or --num_records or --seed is no integer
UsageError(av) ==
    \/ av.city = None
    \/ av.num_records = None
    \/ av.output_file = None
    \/ ~IsIntText(av.num_records.v)
    \/ (av.seed # None /\ ~IsIntText(av.seed.v))

\* num_records <= 0, or --city or --output_file is empty
ValueRejected(av) ==
    /\ ~UsageError(av)
    /\ \/ IntOfText(av.num_records.v) <= 0
       \/ av.city.v = <<>>
       \/ av.output_file.v = <<>>

Malformed(av) == UsageError(av) \/ ValueRejected(av)

\* the run generated no record, shuffled nothing and never opened or wrote
\* the output file
NothingDone ==
    /\ data = <<>> /\ reassigned_data = <<>>
    /\ fakerRng = call.faker0 /\ globalRng = call.global0
    /\ ~opened /\ ~fileOpen /\ disk = NoFile

LastLogged(k) == SubSeq(log, Len(log) - k + 1, Len(log))

\* C8: when the output file cannot be opened or written, write_data_to_csv
\* logs the error and hands the same exception to main, whose handler logs it
\* and ends the run with exit code 1.
C8_WriteFailureExitsOne ==
    /\ (pc = "handler" /\ call.fault # "none") =>
           /\ exc = OSError(call.fault)
           /\ LastLogged(1) = << <<"ERROR", "Error writing to file", call.fault>> >>
    /\ (Done /\ call.fault # "none") =>
           /\ exitCode = 1
           /\ exc = OSError(call.fault)
           /\ LastLogged(2) = << <<"ERROR", "Error writing to file", call.fault>>,
                                 <<"ERROR", "An unexpected error occurred", call.fault>> >>

C8_Witness ==
    /\ Done
    /\ call.fault = "open"
    /\ DirectoryMissing(args.output_file.v)
    /\ exitCode = 1

\* C9: the handle write_data_to_csv opened is open only inside its with
\* block: it is closed when the function returns, when its exception reaches
\* main, and in every final state of a run.
C9_HandleClosed ==
    fileOpen => pc \in {"header", "rows", "with_exit"}

C9_Witness ==
    /\ pc = "write_except"
    /\ call.fault = "rows"
    /\ opened /\ ~fileOpen
    /\ Len(disk) = 2

====
